---- MODULE Spec2Model ----
(***************************************************************************)
(* Trigger contracts of cozy-triggers: the latch of ITrigger wrapped       *)
(* around the checkTriggerCondition() of each trigger contract, run        *)
(* against an environment of external pools, vaults and tokens whose       *)
(* values change between calls and whose reads may revert.                 *)
(***************************************************************************)
EXTENDS Integers, Sequences, FiniteSets, TLC

\* ------------------------------------------------------------------------
\* Bounds of the model
\* ------------------------------------------------------------------------

\* largest virtual price / price per share a source reports (in model units)
MaxVp == 2

\* the balance every Curve pool tracks internally for each of its tokens
InternalBal == 2

\* how many of the history-free sources (token balances, Convex total
\* supply, gauge balance) are away from their healthy value at one time
MaxFaults == 1

\* ------------------------------------------------------------------------
\* Program constants
\* ------------------------------------------------------------------------

scale == 1000

virtualPriceTol == scale - 500

balanceTol == scale - 500

vaultTol == scale - 500

curveTol == scale - 750

\* ------------------------------------------------------------------------
\* The environment: what the external contracts answer
\* ------------------------------------------------------------------------

\* an external call that reverts
Fail == -1

Unconditional == {"YearnCrvTricrypto", "CurveThreeTokens", "Convex"}

ShortCircuit == {"CurveThreeTokenBasePool", "ConvexUSDP", "Convex2", "ConvexUSDT"}

Contracts == Unconditional \cup ShortCircuit

BaseMeta == {"ConvexUSDP", "Convex2", "ConvexUSDT"}

WithEquality == {"Convex2", "ConvexUSDT"}

Pools == {"curve", "base", "meta"}

Tokens == {<<"curve", 0>>, <<"curve", 1>>, <<"curve", 2>>,
           <<"base", 0>>, <<"base", 1>>, <<"base", 2>>,
           <<"meta", 0>>, <<"meta", 1>>}

\* the pools whose get_virtual_price() a contract reads
PoolsOf(c) ==
  CASE c \in {"YearnCrvTricrypto", "CurveThreeTokens", "CurveThreeTokenBasePool"} -> {"curve"}
    [] OTHER -> {"base", "meta"}

\* the tokens whose balanceOf(pool) a contract reads
TokensOf(c) ==
  CASE c \in {"CurveThreeTokens", "CurveThreeTokenBasePool"} -> {t \in Tokens : t[1] = "curve"}
    [] c \in BaseMeta -> {t \in Tokens : t[1] \in {"base", "meta"}}
    [] OTHER -> {}

\* values get_virtual_price() answers; the Tricrypto pool of YearnCrvTricrypto
\* is compared under curveTol = 250/1000, so it needs a wider range for its
\* threshold to be above zero
VpVals(c) == IF c = "YearnCrvTricrypto" THEN 0..(2 * MaxVp) ELSE 0..MaxVp

PpsVals == 0..MaxVp

\* balanceOf answers: drained, exactly at the tolerance floor, healthy
BalOfVals == {0, InternalBal \div 2, InternalBal}

HealthySupply == 1

SupplyVals == {HealthySupply, HealthySupply + 1}

VARIABLES
  contract,           \* which trigger contract is deployed
  isTriggered,        \* ITrigger.isTriggered
  lastPricePerShare,  \* YearnCrvTricrypto.lastPricePerShare
  lastVirtualPrice,   \* lastVirtualPrice of the single-pool triggers
  lastVpBasePool,     \* lastVpBasePool of the base+meta triggers
  lastVpMetaPool,     \* lastVpMetaPool of the base+meta triggers
  events,             \* number of TriggerActivated events emitted
  pricePerShare,      \* vault.pricePerShare()
  virtualPrice,       \* pool -> get_virtual_price()
  balanceOf,          \* token -> token.balanceOf(pool)
  totalSupply,        \* IERC20(convexToken).totalSupply()
  gaugeBalance,       \* IERC20(gauge).balanceOf(staker)
  internalBalance,    \* pool.balances(i), what the pool tracks for each token
  ret,                \* outcome of the call that just finished ("deployed" for
                      \* the constructor), "none" otherwise
  pre,                \* storage of the trigger when that call started
  reads,              \* the external reads that call made, in order
  identity,           \* name, symbol, description, platformIds, recipient
  args                \* the arguments the constructor was called with

lasts == <<lastPricePerShare, lastVirtualPrice, lastVpBasePool, lastVpMetaPool>>

env == <<pricePerShare, virtualPrice, balanceOf, totalSupply, gaugeBalance, internalBalance>>

\* what no operation after construction assigns
fixed == <<contract, identity, args>>

vars == <<fixed, isTriggered, lasts, events, env, ret, pre, reads>>

\* the identity arguments the tests deploy a trigger with
TestArgs ==
  [name |-> "Mock Trigger", symbol |-> "MOCK-TRIG",
   description |-> "A mock trigger that anyone can toggle",
   platformIds |-> <<3>>, recipient |-> "recipient"]

\* pool.balances(i): the balance the pool tracks internally
balances(t) == internalBalance

Storage == [isTriggered |-> isTriggered, pps |-> lastPricePerShare, vp |-> lastVirtualPrice,
            base |-> lastVpBasePool, meta |-> lastVpMetaPool]

NoStorage == [isTriggered |-> FALSE, pps |-> 0, vp |-> 0, base |-> 0, meta |-> 0]

\* number of history-free sources that are away from their healthy value
Faults(bal, ts, gb) ==
  Cardinality({t \in Tokens : bal[t] # InternalBal})
    + (IF ts # HealthySupply THEN 1 ELSE 0) + (IF gb # HealthySupply THEN 1 ELSE 0)

\* ------------------------------------------------------------------------
\* Pure helpers of the checks
\* ------------------------------------------------------------------------

\* the largest value of the unsigned type of every value of the contracts,
\* at the width of the integers of this model: 2^31 - 1 stands for 2^256 - 1
MaxUint256 == 2147483647

\* old * tol does not fit the type: compiled with Solidity ^0.8, the
\* multiplication panics and the call reverts
Overflows(old, tol) == old > MaxUint256 \div tol

\* (old * tol) / scale in unsigned integer arithmetic, where old * tol fits
Threshold(old, tol) == (old * tol) \div scale

\* one external read: <<function, contract it is called on, index>>
Rd(f, on, i) == <<f, on, i>>

\* what the environment answers to a read
Answer(r) ==
  CASE r[1] = "pricePerShare" -> pricePerShare
    [] r[1] = "get_virtual_price" -> virtualPrice[r[2]]
    [] r[1] = "balanceOf" /\ r[2] = "gauge" -> gaugeBalance
    [] r[1] = "balanceOf" -> balanceOf[<<r[2], r[3]>>]
    [] r[1] = "balances" -> balances(<<r[2], r[3]>>)
    [] r[1] = "totalSupply" -> totalSupply
    [] OTHER -> Fail

\* result of running checkTriggerCondition(): how it ended ("true", "false",
\* "revert"), the reads it made and the storage it leaves
Result(st, rd, pps, vp, base, meta) ==
  [st |-> st, rd |-> rd, pps |-> pps, vp |-> vp, base |-> base, meta |-> meta]

\* a revert rolls the storage back to what it was when the call started
Revert(rd) ==
  Result("revert", rd, lastPricePerShare, lastVirtualPrice, lastVpBasePool, lastVpMetaPool)

CurveTokens == << <<"curve", 0>>, <<"curve", 1>>, <<"curve", 2>> >>

BaseTokens == << <<"base", 0>>, <<"base", 1>>, <<"base", 2>> >>

MetaTokens == << <<"meta", 0>>, <<"meta", 1>> >>

\* BalancesBelowTolerance with <= in place of <: a balance equal to the
\* floor counts as drained
RECURSIVE BalancesBelowTolerance_Inclusive(_, _)
BalancesBelowTolerance_Inclusive(ts, rd) ==
  IF ts = <<>> THEN [st |-> "false", rd |-> rd]
  ELSE LET t == Head(ts)
           rd1 == Append(rd, Rd("balanceOf", t[1], t[2]))
           rd2 == Append(rd1, Rd("balances", t[1], t[2]))
       IN IF balanceOf[t] = Fail THEN [st |-> "revert", rd |-> rd1]
          ELSE IF Overflows(balances(t), balanceTol) THEN [st |-> "revert", rd |-> rd2]
          ELSE IF balanceOf[t] <= Threshold(balances(t), balanceTol)
               THEN [st |-> "true", rd |-> rd2]
               ELSE BalancesBelowTolerance_Inclusive(Tail(ts), rd2)

\* token.balanceOf(pool) < (pool.balances(i) * balanceTol) / scale, the
\* operands read left to right; a reverting read is not caught, nor is a
\* multiplication that overflows
RECURSIVE BalancesBelowTolerance(_, _)
BalancesBelowTolerance(ts, rd) ==
  IF ts = <<>> THEN [st |-> "false", rd |-> rd]
  ELSE LET t == Head(ts)
           rd1 == Append(rd, Rd("balanceOf", t[1], t[2]))
           rd2 == Append(rd1, Rd("balances", t[1], t[2]))
       IN IF balanceOf[t] = Fail THEN [st |-> "revert", rd |-> rd1]
          ELSE IF Overflows(balances(t), balanceTol) THEN [st |-> "revert", rd |-> rd2]
          ELSE IF balanceOf[t] < Threshold(balances(t), balanceTol)
               THEN [st |-> "true", rd |-> rd2]
               ELSE BalancesBelowTolerance(Tail(ts), rd2)

checkCurveBalances(rd) == BalancesBelowTolerance(CurveTokens, rd)

checkCurveBaseBalances(rd) == BalancesBelowTolerance(BaseTokens, rd)

\* checkCurveMetaBalances that looks at metaToken0 alone
checkCurveMetaBalances_FirstTokenOnly(rd) == BalancesBelowTolerance(<< <<"meta", 0>> >>, rd)

checkCurveMetaBalances(rd) == BalancesBelowTolerance(MetaTokens, rd)

\* TryVirtualPrice with <= in place of <: a value equal to the floor violates
TryVirtualPrice_Inclusive(pool, last) ==
  LET v == virtualPrice[pool] IN
  IF v = Fail THEN [st |-> "true", last |-> last]
  ELSE IF Overflows(last, virtualPriceTol) THEN [st |-> "revert", last |-> last]
  ELSE IF v <= Threshold(last, virtualPriceTol) THEN [st |-> "true", last |-> last]
  ELSE [st |-> "ok", last |-> v]

\* TryVirtualPrice with an empty catch block: a failing read falls through
TryVirtualPrice_SwallowFailure(pool, last) ==
  LET v == virtualPrice[pool] IN
  IF v = Fail THEN [st |-> "ok", last |-> last]
  ELSE IF Overflows(last, virtualPriceTol) THEN [st |-> "revert", last |-> last]
  ELSE IF v < Threshold(last, virtualPriceTol) THEN [st |-> "true", last |-> last]
  ELSE [st |-> "ok", last |-> v]

\* TryVirtualPrice with the store moved before the early return
TryVirtualPrice_StoreFirst(pool, last) ==
  LET v == virtualPrice[pool] IN
  IF v = Fail THEN [st |-> "true", last |-> last]
  ELSE IF Overflows(last, virtualPriceTol) THEN [st |-> "revert", last |-> last]
  ELSE IF v < Threshold(last, virtualPriceTol) THEN [st |-> "true", last |-> v]
  ELSE [st |-> "ok", last |-> v]

\* TryVirtualPrice that smooths what it remembers: a value that passes is
\* stored as its mean with last, rounded up
TryVirtualPrice_Smoothed(pool, last) ==
  LET v == virtualPrice[pool] IN
  IF v = Fail THEN [st |-> "true", last |-> last]
  ELSE IF Overflows(last, virtualPriceTol) THEN [st |-> "revert", last |-> last]
  ELSE IF v < Threshold(last, virtualPriceTol) THEN [st |-> "true", last |-> last]
  ELSE [st |-> "ok", last |-> (last + v + 1) \div 2]

\* TryVirtualPrice that remembers the highest value it has seen: a lower
\* value that passes does not replace last
TryVirtualPrice_HighWater(pool, last) ==
  LET v == virtualPrice[pool] IN
  IF v = Fail THEN [st |-> "true", last |-> last]
  ELSE IF Overflows(last, virtualPriceTol) THEN [st |-> "revert", last |-> last]
  ELSE IF v < Threshold(last, virtualPriceTol) THEN [st |-> "true", last |-> last]
  ELSE [st |-> "ok", last |-> IF v > last THEN v ELSE last]

\* try pool.get_virtual_price() returns (v) { if (v < threshold) return true;
\* last = v; } catch { return true; }
\* "true": the check returns true and last keeps its value; "ok": last = v;
\* "revert": the multiplication in the try block overflows, which no catch
\* clause catches
TryVirtualPrice(pool, last) ==
  LET v == virtualPrice[pool] IN
  IF v = Fail THEN [st |-> "true", last |-> last]
  ELSE IF Overflows(last, virtualPriceTol) THEN [st |-> "revert", last |-> last]
  ELSE IF v < Threshold(last, virtualPriceTol) THEN [st |-> "true", last |-> last]
  ELSE [st |-> "ok", last |-> v]

\* VirtualPriceChecks that stores both values only when both checks pass
VirtualPriceChecks_Atomic(rd) ==
  LET rd1 == Append(rd, Rd("get_virtual_price", "base", 0))
      b == TryVirtualPrice("base", lastVpBasePool)
      rd2 == Append(rd1, Rd("get_virtual_price", "meta", 0))
      m == TryVirtualPrice("meta", lastVpMetaPool)
  IN IF b.st = "revert" THEN Revert(rd1)
     ELSE IF b.st = "true"
     THEN Result("true", rd1, lastPricePerShare, lastVirtualPrice, lastVpBasePool, lastVpMetaPool)
     ELSE IF m.st = "revert" THEN Revert(rd2)
     ELSE IF m.st = "true"
          THEN Result("true", rd2, lastPricePerShare, lastVirtualPrice, lastVpBasePool, lastVpMetaPool)
          ELSE Result("false", rd2, lastPricePerShare, lastVirtualPrice, b.last, m.last)

\* VirtualPriceChecks with the two try blocks in the other order: the meta
\* pool is read and checked before the base pool
VirtualPriceChecks_MetaFirst(rd) ==
  LET rd1 == Append(rd, Rd("get_virtual_price", "meta", 0))
      m == TryVirtualPrice("meta", lastVpMetaPool)
      rd2 == Append(rd1, Rd("get_virtual_price", "base", 0))
      b == TryVirtualPrice("base", lastVpBasePool)
  IN IF m.st = "revert" THEN Revert(rd1)
     ELSE IF m.st = "true"
     THEN Result("true", rd1, lastPricePerShare, lastVirtualPrice, lastVpBasePool, lastVpMetaPool)
     ELSE IF b.st = "revert" THEN Revert(rd2)
     ELSE IF b.st = "true"
          THEN Result("true", rd2, lastPricePerShare, lastVirtualPrice, lastVpBasePool, m.last)
          ELSE Result("false", rd2, lastPricePerShare, lastVirtualPrice, b.last, m.last)

\* VirtualPriceChecks that stores the meta pool virtual price it read even
\* when that value is the violation
VirtualPriceChecks_StoreViolatingMeta(rd) ==
  LET rd1 == Append(rd, Rd("get_virtual_price", "base", 0))
      b == TryVirtualPrice("base", lastVpBasePool)
      rd2 == Append(rd1, Rd("get_virtual_price", "meta", 0))
      m == TryVirtualPrice("meta", lastVpMetaPool)
  IN IF b.st = "revert" THEN Revert(rd1)
     ELSE IF b.st = "true"
     THEN Result("true", rd1, lastPricePerShare, lastVirtualPrice, lastVpBasePool, lastVpMetaPool)
     ELSE IF m.st = "revert" THEN Revert(rd2)
     ELSE IF m.st = "true"
          THEN Result("true", rd2, lastPricePerShare, lastVirtualPrice, b.last,
                      IF virtualPrice["meta"] = Fail THEN lastVpMetaPool ELSE virtualPrice["meta"])
          ELSE Result("false", rd2, lastPricePerShare, lastVirtualPrice, b.last, m.last)

\* the base pool virtual price check and then the meta pool virtual price
\* check of the base+meta triggers
VirtualPriceChecks(rd) ==
  LET rd1 == Append(rd, Rd("get_virtual_price", "base", 0))
      b == TryVirtualPrice("base", lastVpBasePool)
      rd2 == Append(rd1, Rd("get_virtual_price", "meta", 0))
      m == TryVirtualPrice("meta", lastVpMetaPool)
  IN IF b.st = "revert" THEN Revert(rd1)
     ELSE IF b.st = "true"
     THEN Result("true", rd1, lastPricePerShare, lastVirtualPrice, lastVpBasePool, lastVpMetaPool)
     ELSE IF m.st = "revert" THEN Revert(rd2)
     ELSE IF m.st = "true"
          THEN Result("true", rd2, lastPricePerShare, lastVirtualPrice, b.last, lastVpMetaPool)
          ELSE Result("false", rd2, lastPricePerShare, lastVirtualPrice, b.last, m.last)

\* SupplyMismatch that looks for inflation only: > in place of !=
SupplyMismatch_InflationOnly(rd) ==
  LET rd1 == Append(rd, Rd("totalSupply", "convexToken", 0))
      rd2 == Append(rd1, Rd("balanceOf", "gauge", 0))
  IN IF totalSupply = Fail THEN [st |-> "revert", rd |-> rd1]
     ELSE IF gaugeBalance = Fail THEN [st |-> "revert", rd |-> rd2]
     ELSE [st |-> IF totalSupply > gaugeBalance THEN "true" ELSE "false", rd |-> rd2]

\* IERC20(convexToken).totalSupply() != IERC20(gauge).balanceOf(staker)
SupplyMismatch(rd) ==
  LET rd1 == Append(rd, Rd("totalSupply", "convexToken", 0))
      rd2 == Append(rd1, Rd("balanceOf", "gauge", 0))
  IN IF totalSupply = Fail THEN [st |-> "revert", rd |-> rd1]
     ELSE IF gaugeBalance = Fail THEN [st |-> "revert", rd |-> rd2]
     ELSE [st |-> IF totalSupply # gaugeBalance THEN "true" ELSE "false", rd |-> rd2]

\* a check that returns early: "true" returns true with the storage
\* untouched, "revert" reverts, "false" goes on with the rest
Early(c, rest) ==
  CASE c.st = "revert" -> Revert(c.rd)
    [] c.st = "true" ->
         Result("true", c.rd, lastPricePerShare, lastVirtualPrice, lastVpBasePool, lastVpMetaPool)
    [] OTHER -> rest

\* ------------------------------------------------------------------------
\* checkTriggerCondition() of each trigger contract
\* ------------------------------------------------------------------------

\* YearnCrvTricrypto.checkTriggerCondition that forgets to store the virtual price
YearnCrvTricrypto_checkTriggerCondition_Partial ==
  LET rd1 == <<Rd("pricePerShare", "vault", 0)>>
      rd2 == Append(rd1, Rd("get_virtual_price", "curve", 0))
      _currentPricePerShare == pricePerShare
      _currentVirtualPrice == virtualPrice["curve"]
      _statusVault == _currentPricePerShare < Threshold(lastPricePerShare, vaultTol)
      _statusCurve == _currentVirtualPrice < Threshold(lastVirtualPrice, curveTol)
  IN IF _currentPricePerShare = Fail THEN Revert(rd1)
     ELSE IF _currentVirtualPrice = Fail THEN Revert(rd2)
     ELSE IF Overflows(lastPricePerShare, vaultTol) \/ Overflows(lastVirtualPrice, curveTol)
          THEN Revert(rd2)
     ELSE Result(IF _statusVault \/ _statusCurve THEN "true" ELSE "false", rd2,
                 _currentPricePerShare, lastVirtualPrice, lastVpBasePool, lastVpMetaPool)

\* YearnCrvTricrypto.checkTriggerCondition that takes a move of the price per
\* share out of tolerance in either direction for a violation
YearnCrvTricrypto_checkTriggerCondition_AnyMove ==
  LET rd1 == <<Rd("pricePerShare", "vault", 0)>>
      rd2 == Append(rd1, Rd("get_virtual_price", "curve", 0))
      _currentPricePerShare == pricePerShare
      _currentVirtualPrice == virtualPrice["curve"]
      _statusVault == \/ _currentPricePerShare < Threshold(lastPricePerShare, vaultTol)
                      \/ lastPricePerShare < Threshold(_currentPricePerShare, vaultTol)
      _statusCurve == _currentVirtualPrice < Threshold(lastVirtualPrice, curveTol)
  IN IF _currentPricePerShare = Fail THEN Revert(rd1)
     ELSE IF _currentVirtualPrice = Fail THEN Revert(rd2)
     ELSE IF Overflows(lastPricePerShare, vaultTol) \/ Overflows(lastVirtualPrice, curveTol)
          THEN Revert(rd2)
     ELSE Result(IF _statusVault \/ _statusCurve THEN "true" ELSE "false", rd2,
                 _currentPricePerShare, _currentVirtualPrice, lastVpBasePool, lastVpMetaPool)

\* YearnCrvTricrypto.checkTriggerCondition that compares the virtual price
\* with the remembered price per share
YearnCrvTricrypto_checkTriggerCondition_Crossed ==
  LET rd1 == <<Rd("pricePerShare", "vault", 0)>>
      rd2 == Append(rd1, Rd("get_virtual_price", "curve", 0))
      _currentPricePerShare == pricePerShare
      _currentVirtualPrice == virtualPrice["curve"]
      _statusVault == _currentPricePerShare < Threshold(lastPricePerShare, vaultTol)
      _statusCurve == _currentVirtualPrice < Threshold(lastPricePerShare, curveTol)
  IN IF _currentPricePerShare = Fail THEN Revert(rd1)
     ELSE IF _currentVirtualPrice = Fail THEN Revert(rd2)
     ELSE IF Overflows(lastPricePerShare, vaultTol) \/ Overflows(lastVirtualPrice, curveTol)
          THEN Revert(rd2)
     ELSE Result(IF _statusVault \/ _statusCurve THEN "true" ELSE "false", rd2,
                 _currentPricePerShare, _currentVirtualPrice, lastVpBasePool, lastVpMetaPool)

\* reads both values, compares both, stores both, returns the disjunction
YearnCrvTricrypto_checkTriggerCondition ==
  LET rd1 == <<Rd("pricePerShare", "vault", 0)>>
      rd2 == Append(rd1, Rd("get_virtual_price", "curve", 0))
      _currentPricePerShare == pricePerShare
      _currentVirtualPrice == virtualPrice["curve"]
      _statusVault == _currentPricePerShare < Threshold(lastPricePerShare, vaultTol)
      _statusCurve == _currentVirtualPrice < Threshold(lastVirtualPrice, curveTol)
  IN IF _currentPricePerShare = Fail THEN Revert(rd1)
     ELSE IF _currentVirtualPrice = Fail THEN Revert(rd2)
     ELSE IF Overflows(lastPricePerShare, vaultTol) \/ Overflows(lastVirtualPrice, curveTol)
          THEN Revert(rd2)
     ELSE Result(IF _statusVault \/ _statusCurve THEN "true" ELSE "false", rd2,
                 _currentPricePerShare, _currentVirtualPrice, lastVpBasePool, lastVpMetaPool)

\* CurveThreeTokens.checkTriggerCondition with <= in place of < in the
\* virtual price comparison
CurveThreeTokens_checkTriggerCondition_Inclusive ==
  LET rd1 == <<Rd("get_virtual_price", "curve", 0)>>
      _currentVirtualPrice == virtualPrice["curve"]
      _statusVirtualPrice == _currentVirtualPrice <= Threshold(lastVirtualPrice, virtualPriceTol)
      _statusBalances == checkCurveBalances(rd1)
  IN IF _currentVirtualPrice = Fail THEN Revert(rd1)
     ELSE IF Overflows(lastVirtualPrice, virtualPriceTol) THEN Revert(rd1)
     ELSE IF _statusBalances.st = "revert" THEN Revert(_statusBalances.rd)
     ELSE Result(IF _statusVirtualPrice \/ _statusBalances.st = "true" THEN "true" ELSE "false",
                 _statusBalances.rd,
                 lastPricePerShare, _currentVirtualPrice, lastVpBasePool, lastVpMetaPool)

\* CurveThreeTokens.checkTriggerCondition that stores the virtual price only
\* when it found no violation
CurveThreeTokens_checkTriggerCondition_StoreOnPass ==
  LET rd1 == <<Rd("get_virtual_price", "curve", 0)>>
      _currentVirtualPrice == virtualPrice["curve"]
      _statusVirtualPrice == _currentVirtualPrice < Threshold(lastVirtualPrice, virtualPriceTol)
      _statusBalances == checkCurveBalances(rd1)
  IN IF _currentVirtualPrice = Fail THEN Revert(rd1)
     ELSE IF Overflows(lastVirtualPrice, virtualPriceTol) THEN Revert(rd1)
     ELSE IF _statusBalances.st = "revert" THEN Revert(_statusBalances.rd)
     ELSE IF _statusVirtualPrice \/ _statusBalances.st = "true"
          THEN Result("true", _statusBalances.rd,
                      lastPricePerShare, lastVirtualPrice, lastVpBasePool, lastVpMetaPool)
          ELSE Result("false", _statusBalances.rd,
                      lastPricePerShare, _currentVirtualPrice, lastVpBasePool, lastVpMetaPool)

\* reads the virtual price, compares it, checks the balances, stores the
\* virtual price, returns the disjunction
CurveThreeTokens_checkTriggerCondition ==
  LET rd1 == <<Rd("get_virtual_price", "curve", 0)>>
      _currentVirtualPrice == virtualPrice["curve"]
      _statusVirtualPrice == _currentVirtualPrice < Threshold(lastVirtualPrice, virtualPriceTol)
      _statusBalances == checkCurveBalances(rd1)
  IN IF _currentVirtualPrice = Fail THEN Revert(rd1)
     ELSE IF Overflows(lastVirtualPrice, virtualPriceTol) THEN Revert(rd1)
     ELSE IF _statusBalances.st = "revert" THEN Revert(_statusBalances.rd)
     ELSE Result(IF _statusVirtualPrice \/ _statusBalances.st = "true" THEN "true" ELSE "false",
                 _statusBalances.rd,
                 lastPricePerShare, _currentVirtualPrice, lastVpBasePool, lastVpMetaPool)

\* Convex.checkTriggerCondition that stores each new value in the other field
Convex_checkTriggerCondition_Swapped ==
  LET rd1 == <<Rd("get_virtual_price", "meta", 0)>>
      rd2 == Append(rd1, Rd("get_virtual_price", "base", 0))
      _newVpMetaPool == virtualPrice["meta"]
      _newVpBasePool == virtualPrice["base"]
      _statusVpMetaPool == _newVpMetaPool < Threshold(lastVpMetaPool, virtualPriceTol)
      _statusVpBasePool == _newVpBasePool < Threshold(lastVpBasePool, virtualPriceTol)
  IN IF _newVpMetaPool = Fail THEN Revert(rd1)
     ELSE IF _newVpBasePool = Fail THEN Revert(rd2)
     ELSE IF Overflows(lastVpMetaPool, virtualPriceTol) \/ Overflows(lastVpBasePool, virtualPriceTol)
          THEN Revert(rd2)
     ELSE Result(IF _statusVpMetaPool \/ _statusVpBasePool THEN "true" ELSE "false", rd2,
                 lastPricePerShare, lastVirtualPrice, _newVpMetaPool, _newVpBasePool)

\* Convex.checkTriggerCondition with <= in place of <
Convex_checkTriggerCondition_Inclusive ==
  LET rd1 == <<Rd("get_virtual_price", "meta", 0)>>
      rd2 == Append(rd1, Rd("get_virtual_price", "base", 0))
      _newVpMetaPool == virtualPrice["meta"]
      _newVpBasePool == virtualPrice["base"]
      _statusVpMetaPool == _newVpMetaPool <= Threshold(lastVpMetaPool, virtualPriceTol)
      _statusVpBasePool == _newVpBasePool <= Threshold(lastVpBasePool, virtualPriceTol)
  IN IF _newVpMetaPool = Fail THEN Revert(rd1)
     ELSE IF _newVpBasePool = Fail THEN Revert(rd2)
     ELSE IF Overflows(lastVpMetaPool, virtualPriceTol) \/ Overflows(lastVpBasePool, virtualPriceTol)
          THEN Revert(rd2)
     ELSE Result(IF _statusVpMetaPool \/ _statusVpBasePool THEN "true" ELSE "false", rd2,
                 lastPricePerShare, lastVirtualPrice, _newVpBasePool, _newVpMetaPool)

\* reads the meta and the base virtual price, compares both, stores both,
\* returns the disjunction
Convex_checkTriggerCondition ==
  LET rd1 == <<Rd("get_virtual_price", "meta", 0)>>
      rd2 == Append(rd1, Rd("get_virtual_price", "base", 0))
      _newVpMetaPool == virtualPrice["meta"]
      _newVpBasePool == virtualPrice["base"]
      _statusVpMetaPool == _newVpMetaPool < Threshold(lastVpMetaPool, virtualPriceTol)
      _statusVpBasePool == _newVpBasePool < Threshold(lastVpBasePool, virtualPriceTol)
  IN IF _newVpMetaPool = Fail THEN Revert(rd1)
     ELSE IF _newVpBasePool = Fail THEN Revert(rd2)
     ELSE IF Overflows(lastVpMetaPool, virtualPriceTol) \/ Overflows(lastVpBasePool, virtualPriceTol)
          THEN Revert(rd2)
     ELSE Result(IF _statusVpMetaPool \/ _statusVpBasePool THEN "true" ELSE "false", rd2,
                 lastPricePerShare, lastVirtualPrice, _newVpBasePool, _newVpMetaPool)

\* CurveThreeTokenBasePool.checkTriggerCondition whose balance check, when it
\* finds a drained token, reads the virtual price and stores it
CurveThreeTokenBasePool_checkTriggerCondition_StoreOnDrain ==
  LET bal == checkCurveBalances(<<>>)
      rd1 == Append(bal.rd, Rd("get_virtual_price", "curve", 0))
      v == TryVirtualPrice("curve", lastVirtualPrice)
  IN IF bal.st = "true" /\ virtualPrice["curve"] # Fail
     THEN Result("true", rd1, lastPricePerShare, virtualPrice["curve"], lastVpBasePool, lastVpMetaPool)
     ELSE Early(bal,
            IF v.st = "revert" THEN Revert(rd1)
            ELSE Result(IF v.st = "true" THEN "true" ELSE "false", rd1,
                        lastPricePerShare, v.last, lastVpBasePool, lastVpMetaPool))

\* balance check, then the virtual price in a try/catch
CurveThreeTokenBasePool_checkTriggerCondition ==
  LET bal == checkCurveBalances(<<>>)
      rd1 == Append(bal.rd, Rd("get_virtual_price", "curve", 0))
      v == TryVirtualPrice("curve", lastVirtualPrice)
  IN Early(bal,
       IF v.st = "revert" THEN Revert(rd1)
       ELSE Result(IF v.st = "true" THEN "true" ELSE "false", rd1,
                   lastPricePerShare, v.last, lastVpBasePool, lastVpMetaPool))

\* base balances, meta balances, base virtual price, meta virtual price
ConvexUSDP_checkTriggerCondition ==
  LET base == checkCurveBaseBalances(<<>>)
      meta == checkCurveMetaBalances(base.rd)
  IN Early(base, Early(meta, VirtualPriceChecks(meta.rd)))

\* supply equality, then checkCurveBaseBalances() || checkCurveMetaBalances(),
\* then base virtual price, then meta virtual price
Convex2_checkTriggerCondition ==
  LET eq == SupplyMismatch(<<>>)
      base == checkCurveBaseBalances(eq.rd)
      meta == checkCurveMetaBalances(base.rd)
      either == IF base.st = "false" THEN meta ELSE base
  IN Early(eq, Early(either, VirtualPriceChecks(either.rd)))

\* supply equality, base balances, meta balances, base virtual price, meta
\* virtual price
ConvexUSDT_checkTriggerCondition ==
  LET eq == SupplyMismatch(<<>>)
      base == checkCurveBaseBalances(eq.rd)
      meta == checkCurveMetaBalances(base.rd)
  IN Early(eq, Early(base, Early(meta, VirtualPriceChecks(meta.rd))))

\* the override the deployed contract runs
checkTriggerCondition ==
  CASE contract = "YearnCrvTricrypto" -> YearnCrvTricrypto_checkTriggerCondition
    [] contract = "CurveThreeTokens" -> CurveThreeTokens_checkTriggerCondition
    [] contract = "Convex" -> Convex_checkTriggerCondition
    [] contract = "CurveThreeTokenBasePool" -> CurveThreeTokenBasePool_checkTriggerCondition
    [] contract = "ConvexUSDP" -> ConvexUSDP_checkTriggerCondition
    [] contract = "Convex2" -> Convex2_checkTriggerCondition
    [] contract = "ConvexUSDT" -> ConvexUSDT_checkTriggerCondition

\* ------------------------------------------------------------------------
\* ITrigger.checkAndToggleTrigger(): the latch around checkTriggerCondition()
\* ------------------------------------------------------------------------

\* checkAndToggleTrigger without the early return: it evaluates again and
\* sets isTriggered to the result
checkAndToggleTrigger_Toggle ==
  /\ pre' = Storage
  /\ UNCHANGED <<fixed, env>>
  /\ LET r == checkTriggerCondition IN
     /\ ret' = r.st
     /\ reads' = r.rd
     /\ lastPricePerShare' = r.pps
     /\ lastVirtualPrice' = r.vp
     /\ lastVpBasePool' = r.base
     /\ lastVpMetaPool' = r.meta
     /\ isTriggered' = (r.st = "true")
     /\ events' = IF r.st = "true" /\ events = 0 THEN 1 ELSE events

\* checkAndToggleTrigger that evaluates the checks before it looks at
\* isTriggered, and discards the evaluation when already Triggered
checkAndToggleTrigger_Recheck ==
  /\ pre' = Storage
  /\ UNCHANGED <<fixed, env>>
  /\ LET r == checkTriggerCondition IN
     IF isTriggered
     THEN /\ ret' = IF r.st = "revert" THEN "revert" ELSE "true"
          /\ reads' = r.rd
          /\ UNCHANGED <<isTriggered, lasts, events>>
     ELSE /\ ret' = r.st
          /\ reads' = r.rd
          /\ lastPricePerShare' = r.pps
          /\ lastVirtualPrice' = r.vp
          /\ lastVpBasePool' = r.base
          /\ lastVpMetaPool' = r.meta
          /\ isTriggered' = (r.st = "true")
          /\ events' = IF r.st = "true" THEN events + 1 ELSE events

\* checkAndToggleTrigger that evaluates the checks before it looks at
\* isTriggered, and keeps what the evaluation stored
checkAndToggleTrigger_CommitFirst ==
  /\ pre' = Storage
  /\ UNCHANGED <<fixed, env>>
  /\ LET r == checkTriggerCondition IN
     /\ ret' = IF isTriggered /\ r.st # "revert" THEN "true" ELSE r.st
     /\ reads' = IF isTriggered THEN <<>> ELSE r.rd
     /\ lastPricePerShare' = r.pps
     /\ lastVirtualPrice' = r.vp
     /\ lastVpBasePool' = r.base
     /\ lastVpMetaPool' = r.meta
     /\ isTriggered' = (isTriggered \/ r.st = "true")
     /\ events' = IF ~isTriggered /\ r.st = "true" THEN events + 1 ELSE events

\* checkAndToggleTrigger that emits TriggerActivated in every call that
\* returns true
checkAndToggleTrigger_EmitOnTrue ==
  /\ pre' = Storage
  /\ UNCHANGED <<fixed, env>>
  /\ IF isTriggered
     THEN /\ ret' = "true"
          /\ reads' = <<>>
          /\ events' = events + 1
          /\ UNCHANGED <<isTriggered, lasts>>
     ELSE LET r == checkTriggerCondition IN
          /\ ret' = r.st
          /\ reads' = r.rd
          /\ lastPricePerShare' = r.pps
          /\ lastVirtualPrice' = r.vp
          /\ lastVpBasePool' = r.base
          /\ lastVpMetaPool' = r.meta
          /\ isTriggered' = (r.st = "true")
          /\ events' = IF r.st = "true" THEN events + 1 ELSE events

\* checkAndToggleTrigger that returns the value isTriggered had when the
\* call started
checkAndToggleTrigger_StaleReturn ==
  /\ pre' = Storage
  /\ UNCHANGED <<fixed, env>>
  /\ IF isTriggered
     THEN /\ ret' = "true"
          /\ reads' = <<>>
          /\ UNCHANGED <<isTriggered, lasts, events>>
     ELSE LET r == checkTriggerCondition IN
          /\ ret' = IF r.st = "true" THEN "false" ELSE r.st
          /\ reads' = r.rd
          /\ lastPricePerShare' = r.pps
          /\ lastVirtualPrice' = r.vp
          /\ lastVpBasePool' = r.base
          /\ lastVpMetaPool' = r.meta
          /\ isTriggered' = (r.st = "true")
          /\ events' = IF r.st = "true" THEN events + 1 ELSE events

\* if (isTriggered) return true;
\* if (!checkTriggerCondition()) return false;
\* emit TriggerActivated(); isTriggered = true; return isTriggered;
checkAndToggleTrigger ==
  /\ pre' = Storage
  /\ UNCHANGED <<fixed, env>>
  /\ IF isTriggered
     THEN /\ ret' = "true"
          /\ reads' = <<>>
          /\ UNCHANGED <<isTriggered, lasts, events>>
     ELSE LET r == checkTriggerCondition IN
          /\ ret' = r.st
          /\ reads' = r.rd
          /\ lastPricePerShare' = r.pps
          /\ lastVirtualPrice' = r.vp
          /\ lastVpBasePool' = r.base
          /\ lastVpMetaPool' = r.meta
          /\ isTriggered' = (r.st = "true")
          /\ events' = IF r.st = "true" THEN events + 1 ELSE events

\* ------------------------------------------------------------------------
\* The environment moves between calls
\* ------------------------------------------------------------------------

\* a step of the environment ends the observation of the last call
Forget ==
  /\ ret' = "none"
  /\ pre' = NoStorage
  /\ reads' = <<>>
  /\ UNCHANGED <<fixed, isTriggered, lasts, events>>

SetPricePerShare(v) ==
  /\ contract = "YearnCrvTricrypto"
  /\ v # pricePerShare
  /\ pricePerShare' = v
  /\ UNCHANGED <<virtualPrice, balanceOf, totalSupply, gaugeBalance, internalBalance>>
  /\ Forget

SetVirtualPrice(p, v) ==
  /\ p \in PoolsOf(contract)
  /\ v \in VpVals(contract) \cup {Fail}
  /\ v # virtualPrice[p]
  /\ virtualPrice' = [virtualPrice EXCEPT ![p] = v]
  /\ UNCHANGED <<pricePerShare, balanceOf, totalSupply, gaugeBalance, internalBalance>>
  /\ Forget

SetBalanceOf(t, v) ==
  /\ t \in TokensOf(contract)
  /\ v # balanceOf[t]
  /\ Faults([balanceOf EXCEPT ![t] = v], totalSupply, gaugeBalance) <= MaxFaults
  /\ balanceOf' = [balanceOf EXCEPT ![t] = v]
  /\ UNCHANGED <<pricePerShare, virtualPrice, totalSupply, gaugeBalance, internalBalance>>
  /\ Forget

SetTotalSupply(v) ==
  /\ contract \in WithEquality
  /\ v # totalSupply
  /\ Faults(balanceOf, v, gaugeBalance) <= MaxFaults
  /\ totalSupply' = v
  /\ UNCHANGED <<pricePerShare, virtualPrice, balanceOf, gaugeBalance, internalBalance>>
  /\ Forget

SetGaugeBalance(v) ==
  /\ contract \in WithEquality
  /\ v # gaugeBalance
  /\ Faults(balanceOf, totalSupply, v) <= MaxFaults
  /\ gaugeBalance' = v
  /\ UNCHANGED <<pricePerShare, virtualPrice, balanceOf, totalSupply, internalBalance>>
  /\ Forget

\* ------------------------------------------------------------------------
\* Construction and the specification
\* ------------------------------------------------------------------------

\* what the sources no constructor reads may answer while the trigger is
\* deployed: the token balances of the pools the contract checks
DeployBalances(c) ==
  {b \in [Tokens -> BalOfVals \cup {Fail}] : \A t \in Tokens \ TokensOf(c) : b[t] = InternalBal}

\* and the Convex total supply and gauge balance of the triggers that
\* compare them
DeploySupplies(c) == IF c \in WithEquality THEN SupplyVals \cup {Fail} ELSE {HealthySupply}

\* a constructor that leaves the trackers at the default of their type
Init_NoInitialRead ==
  /\ contract \in Contracts
  /\ internalBalance = InternalBal
  /\ balanceOf \in DeployBalances(contract)
  /\ totalSupply \in DeploySupplies(contract)
  /\ gaugeBalance \in DeploySupplies(contract)
  /\ Faults(balanceOf, totalSupply, gaugeBalance) <= MaxFaults
  /\ pricePerShare \in (IF contract = "YearnCrvTricrypto" THEN PpsVals ELSE {0})
  /\ virtualPrice \in [Pools -> 0..(2 * MaxVp)]
  /\ \A p \in Pools : virtualPrice[p] \in (IF p \in PoolsOf(contract) THEN VpVals(contract) ELSE {0})
  /\ isTriggered = FALSE
  /\ events = 0
  /\ lastPricePerShare = 0
  /\ lastVirtualPrice = 0
  /\ lastVpBasePool = 0
  /\ lastVpMetaPool = 0
  /\ ret = "deployed"
  /\ pre = NoStorage
  /\ reads = <<>>
  /\ args = TestArgs
  /\ identity = args

\* the constructors read the virtual prices (and the price per share) and
\* store them; a reverting read makes the deployment fail; they read no
\* balance and no supply, and check nothing
Init ==
  /\ contract \in Contracts
  /\ internalBalance = InternalBal
  /\ balanceOf \in DeployBalances(contract)
  /\ totalSupply \in DeploySupplies(contract)
  /\ gaugeBalance \in DeploySupplies(contract)
  /\ Faults(balanceOf, totalSupply, gaugeBalance) <= MaxFaults
  /\ pricePerShare \in (IF contract = "YearnCrvTricrypto" THEN PpsVals ELSE {0})
  /\ virtualPrice \in [Pools -> 0..(2 * MaxVp)]
  /\ \A p \in Pools : virtualPrice[p] \in (IF p \in PoolsOf(contract) THEN VpVals(contract) ELSE {0})
  /\ isTriggered = FALSE
  /\ events = 0
  /\ lastPricePerShare = pricePerShare
  /\ lastVirtualPrice = virtualPrice["curve"]
  /\ lastVpBasePool = virtualPrice["base"]
  /\ lastVpMetaPool = virtualPrice["meta"]
  /\ ret = "deployed"
  /\ pre = NoStorage
  /\ reads = <<>>
  /\ args = TestArgs
  /\ identity = args

Next ==
  \/ checkAndToggleTrigger
  \/ \E v \in PpsVals \cup {Fail} : SetPricePerShare(v)
  \/ \E p \in Pools, v \in 0..(2 * MaxVp) \cup {Fail} : SetVirtualPrice(p, v)
  \/ \E t \in Tokens, v \in BalOfVals \cup {Fail} : SetBalanceOf(t, v)
  \/ \E v \in SupplyVals \cup {Fail} : SetTotalSupply(v)
  \/ \E v \in SupplyVals \cup {Fail} : SetGaugeBalance(v)

Spec == Init /\ [][Next]_vars

\* ------------------------------------------------------------------------
\* The same triggers run on the values the tolerance tests use: a source at
\* 1000 moved to just above, onto and just below the floor of its tolerance,
\* a pool that tracks 1,000,000 of each token, a Convex supply of 1,000
\* ------------------------------------------------------------------------

\* values get_virtual_price() answers: the floor of 1000 under the
\* contract's tolerance, one below it, 1000 and a thousandfold increase; for
\* YearnCrvTricrypto also the two values its test moves the pool to
BoundaryVps(c) ==
  IF c = "YearnCrvTricrypto" THEN {249, 250, 489, 490, 1000, 1000000}
  ELSE {499, 500, 1000, 1000000}

BoundaryPps == {499, 500, 1000, 1000000}

BoundaryBals == {499999, 500000, 500001, 1000000}

BoundarySupplies == {999, 1000, 1001}

\* every token balance but that of t is what the pool tracks, and the Convex
\* supply matches the gauge balance
OthersHealthy(t) ==
  /\ \A u \in Tokens \ {t} : balanceOf[u] = internalBalance
  /\ totalSupply = gaugeBalance

BoundarySetPricePerShare(v) ==
  /\ contract = "YearnCrvTricrypto"
  /\ v # pricePerShare
  /\ pricePerShare' = v
  /\ UNCHANGED <<virtualPrice, balanceOf, totalSupply, gaugeBalance, internalBalance>>
  /\ Forget

BoundarySetVirtualPrice(p, v) ==
  /\ p \in PoolsOf(contract)
  /\ v \in BoundaryVps(contract)
  /\ v # virtualPrice[p]
  /\ virtualPrice' = [virtualPrice EXCEPT ![p] = v]
  /\ UNCHANGED <<pricePerShare, balanceOf, totalSupply, gaugeBalance, internalBalance>>
  /\ Forget

\* the tokens held by the pools a contract watches, read by it or not
PoolTokens(c) == {t \in Tokens : t[1] \in PoolsOf(c)}

BoundarySetBalanceOf(t, v) ==
  /\ t \in PoolTokens(contract)
  /\ v # balanceOf[t]
  /\ OthersHealthy(t)
  /\ balanceOf' = [balanceOf EXCEPT ![t] = v]
  /\ UNCHANGED <<pricePerShare, virtualPrice, totalSupply, gaugeBalance, internalBalance>>
  /\ Forget

BoundarySetTotalSupply(v) ==
  /\ contract \in WithEquality
  /\ v # totalSupply
  /\ \A u \in Tokens : balanceOf[u] = internalBalance
  /\ totalSupply' = v
  /\ UNCHANGED <<pricePerShare, virtualPrice, balanceOf, gaugeBalance, internalBalance>>
  /\ Forget

\* deployed while every source it will read is healthy
InitBoundary ==
  /\ contract \in Contracts
  /\ internalBalance = 1000000
  /\ balanceOf = [t \in Tokens |-> 1000000]
  /\ totalSupply = 1000
  /\ gaugeBalance = 1000
  /\ pricePerShare = (IF contract = "YearnCrvTricrypto" THEN 1000 ELSE 0)
  /\ virtualPrice = [p \in Pools |-> IF p \in PoolsOf(contract) THEN 1000 ELSE 0]
  /\ isTriggered = FALSE
  /\ events = 0
  /\ lastPricePerShare = pricePerShare
  /\ lastVirtualPrice = virtualPrice["curve"]
  /\ lastVpBasePool = virtualPrice["base"]
  /\ lastVpMetaPool = virtualPrice["meta"]
  /\ ret = "deployed"
  /\ pre = NoStorage
  /\ reads = <<>>
  /\ args = TestArgs
  /\ identity = args

NextBoundary ==
  \/ checkAndToggleTrigger
  \/ \E v \in BoundaryPps : BoundarySetPricePerShare(v)
  \/ \E p \in Pools, v \in BoundaryVps(contract) : BoundarySetVirtualPrice(p, v)
  \/ \E t \in Tokens, v \in BoundaryBals : BoundarySetBalanceOf(t, v)
  \/ \E v \in BoundarySupplies : BoundarySetTotalSupply(v)

SpecBoundary == InitBoundary /\ [][NextBoundary]_vars

\* ------------------------------------------------------------------------
\* The same triggers when their sources answer values from the whole range
\* of the unsigned type: the remembered value times the tolerance then no
\* longer fits the type
\* ------------------------------------------------------------------------

\* values around the largest old value whose product with a tolerance of
\* 500 (250 for curveTol) still fits, and the largest value of the type
OverflowVals ==
  {1000, MaxUint256 \div 500, MaxUint256 \div 500 + 1,
   MaxUint256 \div 250, MaxUint256 \div 250 + 1, MaxUint256}

\* what a Curve pool tracks of each of its tokens
OverflowBals == {1000, MaxUint256 \div 500, MaxUint256 \div 500 + 1}

OverflowSetPricePerShare(v) ==
  /\ contract = "YearnCrvTricrypto"
  /\ v # pricePerShare
  /\ pricePerShare' = v
  /\ UNCHANGED <<virtualPrice, balanceOf, totalSupply, gaugeBalance, internalBalance>>
  /\ Forget

OverflowSetVirtualPrice(p, v) ==
  /\ p \in PoolsOf(contract)
  /\ v # virtualPrice[p]
  /\ virtualPrice' = [virtualPrice EXCEPT ![p] = v]
  /\ UNCHANGED <<pricePerShare, balanceOf, totalSupply, gaugeBalance, internalBalance>>
  /\ Forget

\* deployed on balanced pools: the constructor stores what it reads and
\* multiplies nothing
InitOverflow ==
  /\ contract \in Contracts
  /\ internalBalance \in OverflowBals
  /\ balanceOf = [t \in Tokens |-> internalBalance]
  /\ totalSupply = 1000
  /\ gaugeBalance = 1000
  /\ pricePerShare \in (IF contract = "YearnCrvTricrypto" THEN OverflowVals ELSE {0})
  /\ virtualPrice \in [Pools -> OverflowVals \cup {0}]
  /\ \A p \in Pools : virtualPrice[p] = 0 <=> p \notin PoolsOf(contract)
  /\ isTriggered = FALSE
  /\ events = 0
  /\ lastPricePerShare = pricePerShare
  /\ lastVirtualPrice = virtualPrice["curve"]
  /\ lastVpBasePool = virtualPrice["base"]
  /\ lastVpMetaPool = virtualPrice["meta"]
  /\ ret = "deployed"
  /\ pre = NoStorage
  /\ reads = <<>>
  /\ args = TestArgs
  /\ identity = args

NextOverflow ==
  \/ checkAndToggleTrigger
  \/ \E v \in OverflowVals : OverflowSetPricePerShare(v)
  \/ \E p \in Pools, v \in OverflowVals : OverflowSetVirtualPrice(p, v)

SpecOverflow == InitOverflow /\ [][NextOverflow]_vars

\* ------------------------------------------------------------------------
\* The whole interface of a trigger: the identity given to the constructor,
\* the read-only accessors, and a call of checkAndToggleTrigger() seen step
\* by step, with the contract it is reading from calling back into the
\* trigger before it answers
\* ------------------------------------------------------------------------

\* how many times a source calls back during one call
MaxNested == 2

\* identity arguments of a deployment
ArgVals ==
  [name : {"Mock Trigger", "Convex Trigger"}, symbol : {"MOCK-TRIG"},
   description : {"A mock trigger that anyone can toggle"},
   platformIds : {<<3>>}, recipient : {"recipient", "deployer"}]

\* a call is waiting for the answer of an external read: "reading" before
\* anything was stored, "readingMeta" when a base+meta trigger that has
\* stored lastVpBasePool reads the meta pool
InProgress == ret \in {"reading", "readingMeta"}

\* what the sources called back for during the call, in order
NestedEntries == SelectSeq(reads, LAMBDA e : e[1] = "nested")

\* a constructor that hands _symbol for the name and _name for the symbol
InitInterface_SwappedIdentity ==
  /\ contract \in Contracts
  /\ args \in ArgVals
  /\ identity = [args EXCEPT !.name = args.symbol, !.symbol = args.name]
  /\ internalBalance = 1000000
  /\ balanceOf = [t \in Tokens |-> 1000000]
  /\ totalSupply = 1000
  /\ gaugeBalance = 1000
  /\ pricePerShare = (IF contract = "YearnCrvTricrypto" THEN 1000 ELSE 0)
  /\ virtualPrice = [p \in Pools |-> IF p \in PoolsOf(contract) THEN 1000 ELSE 0]
  /\ isTriggered = FALSE
  /\ events = 0
  /\ lastPricePerShare = pricePerShare
  /\ lastVirtualPrice = virtualPrice["curve"]
  /\ lastVpBasePool = virtualPrice["base"]
  /\ lastVpMetaPool = virtualPrice["meta"]
  /\ ret = "deployed"
  /\ pre = NoStorage
  /\ reads = <<>>

\* the constructor hands its identity arguments to ITrigger and stores the
\* values it reads
InitInterface ==
  /\ contract \in Contracts
  /\ args \in ArgVals
  /\ identity = args
  /\ internalBalance = 1000000
  /\ balanceOf = [t \in Tokens |-> 1000000]
  /\ totalSupply = 1000
  /\ gaugeBalance = 1000
  /\ pricePerShare = (IF contract = "YearnCrvTricrypto" THEN 1000 ELSE 0)
  /\ virtualPrice = [p \in Pools |-> IF p \in PoolsOf(contract) THEN 1000 ELSE 0]
  /\ isTriggered = FALSE
  /\ events = 0
  /\ lastPricePerShare = pricePerShare
  /\ lastVirtualPrice = virtualPrice["curve"]
  /\ lastVpBasePool = virtualPrice["base"]
  /\ lastVpMetaPool = virtualPrice["meta"]
  /\ ret = "deployed"
  /\ pre = NoStorage
  /\ reads = <<>>

\* getters that bring the last-value fields up to date before answering
Accessor_Refreshing ==
  /\ ~InProgress
  /\ ret' = "view"
  /\ pre' = Storage
  /\ reads' = <<>>
  /\ lastPricePerShare' = pricePerShare
  /\ lastVirtualPrice' = virtualPrice["curve"]
  /\ lastVpBasePool' = virtualPrice["base"]
  /\ lastVpMetaPool' = virtualPrice["meta"]
  /\ UNCHANGED <<fixed, env, isTriggered, events>>

\* isTriggered(), lastVirtualPrice(), name(), ...: the getters of the public
\* fields return the field and assign nothing
Accessor ==
  /\ ~InProgress
  /\ ret' = "view"
  /\ pre' = Storage
  /\ reads' = <<>>
  /\ UNCHANGED <<fixed, env, isTriggered, lasts, events>>

\* a call on an Armed trigger reaches its first external read
Begin ==
  /\ ~InProgress
  /\ ~isTriggered
  /\ checkTriggerCondition.rd # <<>>
  /\ pre' = Storage
  /\ ret' = "reading"
  /\ reads' = <<>>
  /\ UNCHANGED <<fixed, env, isTriggered, lasts, events>>

\* a base+meta trigger whose checks up to the base pool virtual price passed
\* has assigned lastVpBasePool and reads the meta pool
Advance ==
  /\ ret = "reading"
  /\ contract \in BaseMeta
  /\ LET r == checkTriggerCondition
     IN /\ r.st # "revert"
        /\ r.rd[Len(r.rd)] = Rd("get_virtual_price", "meta", 0)
  /\ lastVpBasePool' = TryVirtualPrice("base", lastVpBasePool).last
  /\ ret' = "readingMeta"
  /\ UNCHANGED <<fixed, env, isTriggered, lastPricePerShare, lastVirtualPrice, lastVpMetaPool,
                 events, pre, reads>>

\* the source being read calls checkAndToggleTrigger(): every read of the
\* triggers goes through a view function, so the nested frame is static; it
\* evaluates, and aborts at its first assignment or at the event, which
\* every path that does not revert by itself reaches
NestedCall ==
  /\ InProgress
  /\ Len(NestedEntries) < MaxNested
  /\ LET r == checkTriggerCondition
         assigns == r.st \in {"true", "false"}
     IN reads' = Append(reads, <<"nested", "checkAndToggleTrigger",
                                IF assigns THEN "revert" ELSE r.st>>)
  /\ UNCHANGED <<fixed, env, isTriggered, lasts, events, ret, pre>>

\* the source being read reads the public fields of the trigger
NestedRead ==
  /\ InProgress
  /\ Len(NestedEntries) < MaxNested
  /\ reads' = Append(reads, <<"nested", "read", Storage>>)
  /\ UNCHANGED <<fixed, env, isTriggered, lasts, events, ret, pre>>

\* the reads are answered and the call runs to its end; a revert rolls back
\* what the call had stored
Finish ==
  /\ InProgress
  /\ LET r == checkTriggerCondition
     IN /\ ret' = r.st
        /\ reads' = reads \o r.rd
        /\ lastPricePerShare' = r.pps
        /\ lastVirtualPrice' = r.vp
        /\ lastVpBasePool' = (IF r.st = "revert" THEN pre.base ELSE r.base)
        /\ lastVpMetaPool' = r.meta
        /\ isTriggered' = (r.st = "true")
        /\ events' = IF r.st = "true" THEN events + 1 ELSE events
  /\ UNCHANGED <<fixed, env, pre>>

NextInterface ==
  \/ ~InProgress /\ checkAndToggleTrigger
  \/ Accessor
  \/ Begin
  \/ Advance
  \/ NestedCall
  \/ NestedRead
  \/ Finish
  \/ \E v \in BoundaryPps : ~InProgress /\ BoundarySetPricePerShare(v)
  \/ \E p \in Pools, v \in BoundaryVps(contract) : ~InProgress /\ BoundarySetVirtualPrice(p, v)

SpecInterface == InitInterface /\ [][NextInterface]_vars

\* ------------------------------------------------------------------------
\* The base+meta triggers while any number of their pool tokens are drained
\* at once, the virtual prices fall or cannot be read and the Convex supply
\* is inflated
\* ------------------------------------------------------------------------

\* true balances of a token whose pool tracks 1,000,000: just below the
\* floor of the tolerance, on it, and untouched
DrainBals == {499999, 500000, 1000000}

\* virtual prices against a remembered 1000: unreadable, just below the
\* floor, unchanged
DrainVps == {Fail, 499, 1000}

DrainSupplies == {1000, 1001}

DrainSetBalanceOf(t, v) ==
  /\ t \in TokensOf(contract)
  /\ v # balanceOf[t]
  /\ balanceOf' = [balanceOf EXCEPT ![t] = v]
  /\ UNCHANGED <<pricePerShare, virtualPrice, totalSupply, gaugeBalance, internalBalance>>
  /\ Forget

DrainSetVirtualPrice(p, v) ==
  /\ p \in PoolsOf(contract)
  /\ v # virtualPrice[p]
  /\ virtualPrice' = [virtualPrice EXCEPT ![p] = v]
  /\ UNCHANGED <<pricePerShare, balanceOf, totalSupply, gaugeBalance, internalBalance>>
  /\ Forget

DrainSetTotalSupply(v) ==
  /\ contract \in WithEquality
  /\ v # totalSupply
  /\ totalSupply' = v
  /\ UNCHANGED <<pricePerShare, virtualPrice, balanceOf, gaugeBalance, internalBalance>>
  /\ Forget

\* a base+meta trigger deployed on healthy pools
InitDrain ==
  /\ contract \in BaseMeta
  /\ internalBalance = 1000000
  /\ balanceOf = [t \in Tokens |-> 1000000]
  /\ totalSupply = 1000
  /\ gaugeBalance = 1000
  /\ pricePerShare = 0
  /\ virtualPrice = [p \in Pools |-> IF p \in PoolsOf(contract) THEN 1000 ELSE 0]
  /\ isTriggered = FALSE
  /\ events = 0
  /\ lastPricePerShare = pricePerShare
  /\ lastVirtualPrice = virtualPrice["curve"]
  /\ lastVpBasePool = virtualPrice["base"]
  /\ lastVpMetaPool = virtualPrice["meta"]
  /\ ret = "deployed"
  /\ pre = NoStorage
  /\ reads = <<>>
  /\ args = TestArgs
  /\ identity = args

NextDrain ==
  \/ checkAndToggleTrigger
  \/ \E t \in Tokens, v \in DrainBals : DrainSetBalanceOf(t, v)
  \/ \E p \in Pools, v \in DrainVps : DrainSetVirtualPrice(p, v)
  \/ \E v \in DrainSupplies : DrainSetTotalSupply(v)

SpecDrain == InitDrain /\ [][NextDrain]_vars

\* ------------------------------------------------------------------------
\* A slow decline: between two calls one signal falls, never below the floor
\* its tolerance puts under the value it had at the last call
\* ------------------------------------------------------------------------

\* 1000 halved again and again, rounding down, to 0
DeclineVals == {0, 1, 3, 7, 15, 31, 62, 125, 250, 500, 1000}

\* the tolerance a contract compares a signal under
ToleranceOf(c, signal) ==
  CASE signal = "pricePerShare" -> vaultTol
    [] c = "YearnCrvTricrypto" -> curveTol
    [] OTHER -> virtualPriceTol

\* the last step was the construction or a call that returned false: every
\* signal is at the value the trigger remembers
JustStored == ret \in {"deployed", "false"}

DeclinePricePerShare(v) ==
  /\ contract = "YearnCrvTricrypto"
  /\ JustStored
  /\ v < pricePerShare
  /\ v >= Threshold(pricePerShare, ToleranceOf(contract, "pricePerShare"))
  /\ pricePerShare' = v
  /\ UNCHANGED <<virtualPrice, balanceOf, totalSupply, gaugeBalance, internalBalance>>
  /\ Forget

DeclineVirtualPrice(p, v) ==
  /\ p \in PoolsOf(contract)
  /\ JustStored
  /\ v < virtualPrice[p]
  /\ v >= Threshold(virtualPrice[p], ToleranceOf(contract, "get_virtual_price"))
  /\ virtualPrice' = [virtualPrice EXCEPT ![p] = v]
  /\ UNCHANGED <<pricePerShare, balanceOf, totalSupply, gaugeBalance, internalBalance>>
  /\ Forget

\* deployed while every signal is at 1000 and every other source is healthy
InitDecline ==
  /\ contract \in Contracts
  /\ internalBalance = 1000000
  /\ balanceOf = [t \in Tokens |-> 1000000]
  /\ totalSupply = 1000
  /\ gaugeBalance = 1000
  /\ pricePerShare = (IF contract = "YearnCrvTricrypto" THEN 1000 ELSE 0)
  /\ virtualPrice = [p \in Pools |-> IF p \in PoolsOf(contract) THEN 1000 ELSE 0]
  /\ isTriggered = FALSE
  /\ events = 0
  /\ lastPricePerShare = pricePerShare
  /\ lastVirtualPrice = virtualPrice["curve"]
  /\ lastVpBasePool = virtualPrice["base"]
  /\ lastVpMetaPool = virtualPrice["meta"]
  /\ ret = "deployed"
  /\ pre = NoStorage
  /\ reads = <<>>
  /\ args = TestArgs
  /\ identity = args

NextDecline ==
  \/ checkAndToggleTrigger
  \/ \E v \in DeclineVals : DeclinePricePerShare(v)
  \/ \E p \in Pools, v \in DeclineVals : DeclineVirtualPrice(p, v)

SpecDecline == InitDecline /\ [][NextDecline]_vars

\* ------------------------------------------------------------------------
\* A dip between two calls: a signal drops below the floor of the value the
\* trigger remembers and comes back to the floor or above it; a call can be
\* made at any moment. Between calls ret tells what the signal has done:
\* "dipped", then "recovered"
\* ------------------------------------------------------------------------

\* the field a contract remembers the virtual price of a pool in
LastOf(p) ==
  CASE p = "curve" -> lastVirtualPrice
    [] p = "base" -> lastVpBasePool
    [] p = "meta" -> lastVpMetaPool

DipPricePerShare(v) ==
  /\ contract = "YearnCrvTricrypto"
  /\ JustStored
  /\ v < Threshold(lastPricePerShare, ToleranceOf(contract, "pricePerShare"))
  /\ pricePerShare' = v
  /\ ret' = "dipped"
  /\ pre' = NoStorage
  /\ reads' = <<>>
  /\ UNCHANGED <<fixed, isTriggered, lasts, events, virtualPrice, balanceOf, totalSupply,
                 gaugeBalance, internalBalance>>

DipVirtualPrice(p, v) ==
  /\ p \in PoolsOf(contract)
  /\ JustStored
  /\ v < Threshold(LastOf(p), ToleranceOf(contract, "get_virtual_price"))
  /\ virtualPrice' = [virtualPrice EXCEPT ![p] = v]
  /\ ret' = "dipped"
  /\ pre' = NoStorage
  /\ reads' = <<>>
  /\ UNCHANGED <<fixed, isTriggered, lasts, events, pricePerShare, balanceOf, totalSupply,
                 gaugeBalance, internalBalance>>

RecoverPricePerShare(v) ==
  /\ contract = "YearnCrvTricrypto"
  /\ ret = "dipped"
  /\ pricePerShare < Threshold(lastPricePerShare, ToleranceOf(contract, "pricePerShare"))
  /\ v >= Threshold(lastPricePerShare, ToleranceOf(contract, "pricePerShare"))
  /\ pricePerShare' = v
  /\ ret' = "recovered"
  /\ UNCHANGED <<fixed, isTriggered, lasts, events, virtualPrice, balanceOf, totalSupply,
                 gaugeBalance, internalBalance, pre, reads>>

RecoverVirtualPrice(p, v) ==
  /\ p \in PoolsOf(contract)
  /\ ret = "dipped"
  /\ virtualPrice[p] < Threshold(LastOf(p), ToleranceOf(contract, "get_virtual_price"))
  /\ v >= Threshold(LastOf(p), ToleranceOf(contract, "get_virtual_price"))
  /\ virtualPrice' = [virtualPrice EXCEPT ![p] = v]
  /\ ret' = "recovered"
  /\ UNCHANGED <<fixed, isTriggered, lasts, events, pricePerShare, balanceOf, totalSupply,
                 gaugeBalance, internalBalance, pre, reads>>

NextDip ==
  \/ checkAndToggleTrigger
  \/ \E v \in BoundaryPps : DipPricePerShare(v)
  \/ \E p \in Pools, v \in BoundaryVps(contract) : DipVirtualPrice(p, v)
  \/ \E v \in BoundaryPps : RecoverPricePerShare(v)
  \/ \E p \in Pools, v \in BoundaryVps(contract) : RecoverVirtualPrice(p, v)

SpecDip == InitDecline /\ [][NextDip]_vars

\* ------------------------------------------------------------------------
\* Vocabulary of the properties, stated from the storage before the call
\* (pre), the storage after it and the values the sources answer
\* ------------------------------------------------------------------------

\* a call has just finished / has just finished on an Armed trigger
Called == ret \in {"true", "false", "revert"}

CalledArmed == Called /\ ~pre.isTriggered

\* the trackers (remembered value + tolerance) of each contract
TrackerNames(c) ==
  CASE c = "YearnCrvTricrypto" -> {"pps", "vp"}
    [] c \in {"CurveThreeTokens", "CurveThreeTokenBasePool"} -> {"vp"}
    [] OTHER -> {"base", "meta"}

\* the value the tracker's source answers
Fresh(n) ==
  CASE n = "pps" -> pricePerShare
    [] n = "vp" -> virtualPrice["curve"]
    [] n = "base" -> virtualPrice["base"]
    [] n = "meta" -> virtualPrice["meta"]

\* the tracker's lastValue now
Last(n) ==
  CASE n = "pps" -> lastPricePerShare
    [] n = "vp" -> lastVirtualPrice
    [] n = "base" -> lastVpBasePool
    [] n = "meta" -> lastVpMetaPool

\* numerator of the tracker's tolerance, over 1000
TolOf(c, n) ==
  CASE n = "pps" -> 500
    [] c = "YearnCrvTricrypto" /\ n = "vp" -> 250
    [] OTHER -> 500

\* the source answers, and the answer is below floor(old * num / 1000) of the
\* value remembered when the call started
BelowFloor(c, n) ==
  Fresh(n) # Fail /\ 1000 * Fresh(n) + 999 < pre[n] * TolOf(c, n)

\* outcome of the tracker's check when a failing read is caught
CaughtOutcome(c, n) == IF Fresh(n) = Fail \/ BelowFloor(c, n) THEN "violated" ELSE "ok"

\* outcome of one balance check: both operands are read without try/catch
BalanceOutcome(t) ==
  IF balanceOf[t] = Fail THEN "error"
  ELSE IF 2 * balanceOf[t] + 1 < internalBalance THEN "violated" ELSE "ok"

\* outcome of the supply equality check
EqualityOutcome ==
  IF totalSupply = Fail \/ gaugeBalance = Fail THEN "error"
  ELSE IF totalSupply # gaugeBalance THEN "violated" ELSE "ok"

RECURSIVE FirstNotOk(_)
FirstNotOk(os) ==
  IF os = <<>> THEN "ok" ELSE IF Head(os) # "ok" THEN Head(os) ELSE FirstNotOk(Tail(os))

\* the balance checks of a contract in declared order; YearnCrvTricrypto and
\* Convex have none
BalanceOutcomes(c) ==
  IF c \in BaseMeta
  THEN <<BalanceOutcome(<<"base", 0>>), BalanceOutcome(<<"base", 1>>), BalanceOutcome(<<"base", 2>>),
         BalanceOutcome(<<"meta", 0>>), BalanceOutcome(<<"meta", 1>>)>>
  ELSE IF c \in {"CurveThreeTokens", "CurveThreeTokenBasePool"}
  THEN <<BalanceOutcome(<<"curve", 0>>), BalanceOutcome(<<"curve", 1>>), BalanceOutcome(<<"curve", 2>>)>>
  ELSE <<>>

\* the checks that come before the virtual price checks, in declared order
EarlierOutcomes(c) ==
  (IF c \in WithEquality THEN <<EqualityOutcome>> ELSE <<>>) \o BalanceOutcomes(c)

\* the checks of a short-circuit trigger in declared order
DeclaredOutcomes(c) ==
  EarlierOutcomes(c) \o
    (IF c \in BaseMeta THEN <<CaughtOutcome(c, "base"), CaughtOutcome(c, "meta")>>
     ELSE <<CaughtOutcome(c, "vp")>>)

\* the evaluation of the call that just finished reported a violation
ReportedViolation(c) ==
  CASE c \in ShortCircuit -> FirstNotOk(DeclaredOutcomes(c)) = "violated"
    [] c = "CurveThreeTokens" ->
         /\ Fresh("vp") # Fail
         /\ FirstNotOk(BalanceOutcomes(c)) # "error"
         /\ (BelowFloor(c, "vp") \/ FirstNotOk(BalanceOutcomes(c)) = "violated")
    [] OTHER ->
         /\ \A n \in TrackerNames(c) : Fresh(n) # Fail
         /\ \E n \in TrackerNames(c) : BelowFloor(c, n)

\* every check before the virtual price check of pool p passes
EarlierPass(c, p) ==
  /\ FirstNotOk(EarlierOutcomes(c)) = "ok"
  /\ p = "meta" => CaughtOutcome(c, "base") = "ok"

\* ------------------------------------------------------------------------
\* Properties
\* ------------------------------------------------------------------------

\* C1: once a call has returned true the trigger is Triggered, and from then
\* on it stays Triggered and every call that finishes returns true
C1_LatchIsMonotonic ==
  [][ /\ (ret' = "true" => isTriggered')
      /\ (isTriggered => isTriggered' /\ ret' \in {"none", "true"}) ]_vars

\* a call made on an already Triggered instance has returned
C1_Witness == Called /\ pre.isTriggered /\ isTriggered /\ ret = "true" /\ events = 1

\* C2: after a call on an Armed trigger, the trigger is Triggered exactly
\* when the evaluation of its checks reported a violation
C2_FiresIffViolationReported ==
  CalledArmed => (isTriggered <=> ReportedViolation(contract))

\* an Armed short-circuit trigger latched on a virtual price that was read
\* and found below the floor
C2_Witness ==
  /\ CalledArmed /\ isTriggered /\ contract = "CurveThreeTokenBasePool"
  /\ BelowFloor(contract, "vp") /\ FirstNotOk(EarlierOutcomes(contract)) = "ok"

\* C3: a call on an Armed trigger in which some external read failed
\* completes, returns true and latches
C3_FailingReadLatches ==
  (CalledArmed /\ \E i \in DOMAIN reads : Answer(reads[i]) = Fail)
    => (ret = "true" /\ isTriggered)

\* C4: in a short-circuit trigger, a get_virtual_price() that fails after all
\* earlier checks passed makes the call return true and latch
C4_FailingVirtualPriceLatches ==
  \A p \in PoolsOf(contract) :
    (CalledArmed /\ contract \in ShortCircuit /\ EarlierPass(contract, p) /\ virtualPrice[p] = Fail)
      => (ret = "true" /\ isTriggered)

\* the meta pool read failed after the balances and the base pool passed
C4_Witness ==
  /\ CalledArmed /\ contract = "ConvexUSDT" /\ EarlierPass(contract, "meta")
  /\ virtualPrice["meta"] = Fail /\ ret = "true"

\* the case of C5: base pool check passes, meta pool read fails
C5_Case ==
  /\ CalledArmed /\ contract \in BaseMeta
  /\ EarlierPass(contract, "meta") /\ virtualPrice["meta"] = Fail

\* C5 as stated: then lastVpBasePool is what it was before the call and the
\* trigger is Triggered
C5_EarlierTrackerUnchanged ==
  C5_Case => (lastVpBasePool = pre.base /\ isTriggered)

\* C5 amended: then lastVpBasePool is the value read in the call and the
\* trigger is Triggered
C5_EarlierTrackerCommitted ==
  C5_Case => (lastVpBasePool = virtualPrice["base"] /\ lastVpMetaPool = pre.meta /\ isTriggered)

\* the base pool moved between the calls, so the two readings differ
C5_Witness == C5_Case /\ virtualPrice["base"] # pre.base /\ contract = "ConvexUSDP"

\* C6: after a call that returned false every tracker remembers the value
\* its source answered in that call
C6_CommitOnSuccess ==
  ret = "false" => \A n \in TrackerNames(contract) : Last(n) = Fresh(n)

\* a call returned false and moved a remembered value
C6_Witness ==
  /\ ret = "false" /\ contract \in BaseMeta
  /\ lastVpBasePool # pre.base /\ lastVpMetaPool # pre.meta

\* the tracker's check found a violation in the call that just finished
TrackerViolated(c, n) == Fresh(n) = Fail \/ BelowFloor(c, n)

\* C7 as stated: in a call that reported a violation, the tracker that
\* violated keeps its lastValue
C7_ViolatingTrackerKeepsValue ==
  (CalledArmed /\ ret = "true")
    => \A n \in TrackerNames(contract) : TrackerViolated(contract, n) => Last(n) = pre[n]

\* C7 amended: that holds in the short-circuit triggers; the unconditional
\* triggers store the values read in the violating call
C7_ShortCircuitKeepsUnconditionalStores ==
  (CalledArmed /\ ret = "true")
    => \A n \in TrackerNames(contract) :
         IF contract \in ShortCircuit
         THEN TrackerViolated(contract, n) => Last(n) = pre[n]
         ELSE Last(n) = Fresh(n)

\* a short-circuit trigger latched on a virtual price below the floor
C7_Witness ==
  /\ CalledArmed /\ ret = "true" /\ contract \in ShortCircuit
  /\ FirstNotOk(EarlierOutcomes(contract)) = "ok"
  /\ \E n \in TrackerNames(contract) : BelowFloor(contract, n) /\ Fresh(n) # pre[n]

AllKept == \A n \in TrackerNames(contract) : Last(n) = pre[n]

AllFresh == \A n \in TrackerNames(contract) : Last(n) = Fresh(n)

\* C8 as stated: a call updates every tracker or none
C8_AllOrNothing == Called => (AllKept \/ AllFresh)

\* the call updated lastVpBasePool and then the meta pool check violated
BaseOnly ==
  /\ contract \in BaseMeta /\ ret = "true"
  /\ lastVpBasePool = virtualPrice["base"] /\ lastVpMetaPool = pre.meta
  /\ TrackerViolated(contract, "meta")

\* C8 amended: a call updates every tracker or none, except that a
\* short-circuit base+meta trigger whose base pool check passes and whose
\* meta pool check violates updates lastVpBasePool alone
C8_AllOrNothingOrBaseOnly == Called => (AllKept \/ AllFresh \/ BaseOnly)

\* a call left the two trackers half updated
C8_Witness == Called /\ BaseOnly /\ ~AllKept /\ ~AllFresh /\ contract = "Convex2"

\* C9: a call on a Triggered instance returns true and reads no source
C9_TriggeredCallIsNoOp ==
  (Called /\ pre.isTriggered) => (ret = "true" /\ reads = <<>>)

\* a call on a Triggered instance while one of its sources fails
C9_Witness ==
  /\ Called /\ pre.isTriggered /\ ret = "true"
  /\ \E n \in TrackerNames(contract) : Fresh(n) = Fail

\* C10: once Triggered, no step changes any lastValue
C10_NoWriteAfterLatch == [][isTriggered => lasts' = lasts]_vars

\* a call on a Triggered instance whose sources moved away from the
\* remembered values
C10_Witness ==
  /\ Called /\ pre.isTriggered
  /\ \A n \in TrackerNames(contract) : Fresh(n) # Fail /\ Fresh(n) # Last(n)

\* C11: TriggerActivated is emitted in a step exactly when that step moves
\* the trigger from Armed to Triggered, so it has been emitted once when the
\* trigger is Triggered and never while it is Armed
C11_EventEmittedOnceOnLatch ==
  [][ /\ events' = events + (IF ~isTriggered /\ isTriggered' THEN 1 ELSE 0)
      /\ events' = (IF isTriggered' THEN 1 ELSE 0) ]_vars

\* a call made after the latching call has returned and the count is still one
C11_Witness ==
  /\ Called /\ pre.isTriggered /\ events = 1
  /\ contract \in ShortCircuit /\ ReportedViolation(contract)

\* C12: a call that returns, returns the value isTriggered has after it
C12_ReturnsIsTriggered ==
  ret \in {"true", "false"} => ((ret = "true") <=> isTriggered)

\* the call that latched an unconditional trigger returned true
C12_Witness ==
  CalledArmed /\ ret = "true" /\ isTriggered /\ contract \in Unconditional

\* every check of the contract other than tracker n passes in the call
OthersOk(c, n) ==
  /\ FirstNotOk(EarlierOutcomes(c)) = "ok"
  /\ \A m \in TrackerNames(c) \ {n} : CaughtOutcome(c, m) = "ok"

\* C13: when nothing else violates, a call on an Armed trigger returns true
\* exactly when the fresh value of a tracker is below
\* floor(lastValue * num / 1000); with lastValue 1000 and 500/1000 a fresh
\* value of 500 passes and one of 499 violates
C13_ToleranceBoundary ==
  \A n \in TrackerNames(contract) :
    (CalledArmed /\ OthersOk(contract, n) /\ Fresh(n) # Fail)
      => /\ ret \in {"true", "false"}
         /\ (ret = "true") <=> (Fresh(n) < (pre[n] * TolOf(contract, n)) \div 1000)
         /\ (pre[n] = 1000 /\ TolOf(contract, n) = 500 /\ Fresh(n) = 500) => ret = "false"
         /\ (pre[n] = 1000 /\ TolOf(contract, n) = 500 /\ Fresh(n) = 499) => ret = "true"

\* a virtual price exactly on the floor of 1000 under 500/1000 passed
C13_Witness ==
  /\ CalledArmed /\ contract = "CurveThreeTokens" /\ OthersOk(contract, "vp")
  /\ pre.vp = 1000 /\ Fresh("vp") = 500 /\ ret = "false"

\* C14: a fresh value above the remembered one makes no tracker report a
\* violation, whatever the size of the increase
C14_IncreaseNeverViolates ==
  \A n \in TrackerNames(contract) :
    (CalledArmed /\ OthersOk(contract, n) /\ Fresh(n) # Fail /\ Fresh(n) > pre[n])
      => (ret # "true" /\ ~isTriggered)

\* the price per share went from 1000 to 1,000,000 and the call returned false
C14_Witness ==
  /\ CalledArmed /\ contract = "YearnCrvTricrypto" /\ OthersOk(contract, "pps")
  /\ pre.pps = 1000 /\ Fresh("pps") = 1000000 /\ ret = "false"

\* every check of the contract other than the balance of token t passes
AllElseOk(c, t) ==
  /\ \A u \in TokensOf(c) \ {t} : BalanceOutcome(u) = "ok"
  /\ c \in WithEquality => EqualityOutcome = "ok"
  /\ \A m \in TrackerNames(c) : CaughtOutcome(c, m) = "ok"

\* C15: when nothing else violates, a call on an Armed trigger returns true
\* exactly when the true balance of a token is below
\* floor(internal balance * 500 / 1000); with an internal balance of
\* 1,000,000 a true balance of 500,001 returns false and 499,999 returns true
C15_BalanceBoundary ==
  \A t \in TokensOf(contract) :
    (CalledArmed /\ AllElseOk(contract, t) /\ balanceOf[t] # Fail)
      => /\ ret \in {"true", "false"}
         /\ (ret = "true") <=> (balanceOf[t] < (internalBalance * 500) \div 1000)
         /\ (internalBalance = 1000000 /\ balanceOf[t] = 500001) => ret = "false"
         /\ (internalBalance = 1000000 /\ balanceOf[t] = 499999) => ret = "true"

\* a pool tracking 1,000,000 held 500,001 of one of its tokens and the call
\* returned false
C15_Witness ==
  /\ CalledArmed /\ contract = "CurveThreeTokenBasePool" /\ ret = "false"
  /\ internalBalance = 1000000 /\ balanceOf[<<"curve", 2>>] = 500001

\* C16: in Convex2 and ConvexUSDT a total supply that differs from the gauge
\* balance in either direction makes the call return true and latch, and an
\* equal one does not; 1,000 against 1,000 passes, 1,001 against 1,000 violates
C16_EqualityHasNoTolerance ==
  (CalledArmed /\ contract \in WithEquality /\ totalSupply # Fail /\ gaugeBalance # Fail)
    => /\ totalSupply # gaugeBalance => (ret = "true" /\ isTriggered)
       /\ (/\ totalSupply = gaugeBalance
           /\ FirstNotOk(BalanceOutcomes(contract)) = "ok"
           /\ \A m \in TrackerNames(contract) : CaughtOutcome(contract, m) = "ok")
            => ret = "false"
       /\ (totalSupply = 1001 /\ gaugeBalance = 1000) => ret = "true"

\* a supply one below the gauge balance latched the trigger
C16_Witness ==
  /\ CalledArmed /\ contract = "Convex2" /\ ret = "true"
  /\ totalSupply = 999 /\ gaugeBalance = 1000

\* C17: no trigger is deployed while a check it declares reads a violated
\* state
C17_ConstructionRefusesViolatedState ==
  ret = "deployed"
    => /\ \A t \in TokensOf(contract) : BalanceOutcome(t) # "violated"
       /\ contract \in WithEquality => EqualityOutcome # "violated"

\* the checks of each contract in the order its checkTriggerCondition() runs
\* them: <<"tracker", name, 0>>, <<"balance", pool, i>>, <<"equality", "", 0>>
BalanceChecks(pool, n) == [i \in 1..n |-> <<"balance", pool, i - 1>>]

Declared(c) ==
  CASE c = "YearnCrvTricrypto" -> << <<"tracker", "pps", 0>>, <<"tracker", "vp", 0>> >>
    [] c = "CurveThreeTokens" -> << <<"tracker", "vp", 0>> >> \o BalanceChecks("curve", 3)
    [] c = "Convex" -> << <<"tracker", "meta", 0>>, <<"tracker", "base", 0>> >>
    [] c = "CurveThreeTokenBasePool" -> BalanceChecks("curve", 3) \o << <<"tracker", "vp", 0>> >>
    [] c = "ConvexUSDP" ->
         BalanceChecks("base", 3) \o BalanceChecks("meta", 2)
           \o << <<"tracker", "base", 0>>, <<"tracker", "meta", 0>> >>
    [] OTHER ->
         << <<"equality", "", 0>> >> \o BalanceChecks("base", 3) \o BalanceChecks("meta", 2)
           \o << <<"tracker", "base", 0>>, <<"tracker", "meta", 0>> >>

\* the check reads its sources and finds a violation / finds none
ViolatedByValue(c, k) ==
  CASE k[1] = "tracker" -> BelowFloor(c, k[2])
    [] k[1] = "balance" -> BalanceOutcome(<<k[2], k[3]>>) = "violated"
    [] OTHER -> EqualityOutcome = "violated"

PassesOk(c, k) ==
  CASE k[1] = "tracker" -> Fresh(k[2]) # Fail /\ ~BelowFloor(c, k[2])
    [] k[1] = "balance" -> BalanceOutcome(<<k[2], k[3]>>) = "ok"
    [] OTHER -> EqualityOutcome = "ok"

\* the external reads of a check, in the order it makes them
ReadsOf(k) ==
  CASE k[1] = "tracker" /\ k[2] = "pps" -> << <<"pricePerShare", "vault", 0>> >>
    [] k[1] = "tracker" /\ k[2] = "vp" -> << <<"get_virtual_price", "curve", 0>> >>
    [] k[1] = "tracker" -> << <<"get_virtual_price", k[2], 0>> >>
    [] k[1] = "balance" -> << <<"balanceOf", k[2], k[3]>>, <<"balances", k[2], k[3]>> >>
    [] OTHER -> << <<"totalSupply", "convexToken", 0>>, <<"balanceOf", "gauge", 0>> >>

WasRead(r) == \E i \in DOMAIN reads : reads[i] = r

\* C18: when a check finds a violation after every check before it passed,
\* the call returns true and no source of a later check is read
C18_NoLaterCheckAfterViolation ==
  CalledArmed =>
    \A i \in DOMAIN Declared(contract) :
      (/\ ViolatedByValue(contract, Declared(contract)[i])
       /\ \A j \in 1..(i - 1) : PassesOk(contract, Declared(contract)[j]))
        => /\ ret = "true"
           /\ \A j \in (i + 1)..Len(Declared(contract)) :
                \A x \in DOMAIN ReadsOf(Declared(contract)[j]) :
                  ~WasRead(ReadsOf(Declared(contract)[j])[x])

IsVpRead(r) == r[1] = "get_virtual_price"

IsBalanceOrSupplyRead(r) == r[1] \in {"balanceOf", "balances", "totalSupply"}

\* no balance or supply read comes after a virtual price read, and the meta
\* pool virtual price is not read before that of the base pool
InfallibleFirstBaseBeforeMeta ==
  \A i, j \in DOMAIN reads :
    i < j => /\ ~(IsVpRead(reads[i]) /\ IsBalanceOrSupplyRead(reads[j]))
             /\ ~(reads[i] = <<"get_virtual_price", "meta", 0>>
                    /\ reads[j] = <<"get_virtual_price", "base", 0>>)

\* C19 as stated: every call of every trigger reads in that order
C19_InfallibleChecksFirst == Called => InfallibleFirstBaseBeforeMeta

RECURSIVE FlatReads(_)
FlatReads(ks) == IF ks = <<>> THEN <<>> ELSE ReadsOf(Head(ks)) \o FlatReads(Tail(ks))

\* C19 amended: the reads of a call are a prefix of one fixed sequence per
\* contract; in the short-circuit triggers every balance and supply read
\* comes before every virtual price read and base comes before meta, while
\* CurveThreeTokens reads the virtual price first and Convex reads the meta
\* pool before the base pool
C19_FixedOrderPerContract ==
  Called =>
    /\ Len(reads) <= Len(FlatReads(Declared(contract)))
    /\ reads = SubSeq(FlatReads(Declared(contract)), 1, Len(reads))
    /\ contract \in ShortCircuit => InfallibleFirstBaseBeforeMeta
    /\ (contract = "CurveThreeTokens" /\ reads # <<>>) => IsVpRead(reads[1])
    /\ (contract = "Convex" /\ Len(reads) = 2)
         => reads = << <<"get_virtual_price", "meta", 0>>, <<"get_virtual_price", "base", 0>> >>

\* a call of a trigger with all three kinds of check that ran every check
C19_Witness ==
  /\ CalledArmed /\ contract = "ConvexUSDT" /\ ret = "false"
  /\ Len(reads) = Len(FlatReads(Declared(contract)))

\* C20: in a base+meta trigger whose checks before the virtual prices pass, a
\* base pool virtual price below its floor together with a failing meta pool
\* read makes the call return true and latch
C20_BrokenBasePoolLatches ==
  (/\ CalledArmed /\ contract \in BaseMeta \cup {"Convex"}
   /\ \A t \in TokensOf(contract) : BalanceOutcome(t) = "ok"
   /\ contract \in WithEquality => EqualityOutcome = "ok"
   /\ BelowFloor(contract, "base") /\ virtualPrice["meta"] = Fail)
    => (ret = "true" /\ isTriggered)

\* every read of the call just finished was answered
AllReadsAnswered ==
  /\ pricePerShare # Fail
  /\ \A p \in Pools : virtualPrice[p] # Fail
  /\ \A t \in Tokens : balanceOf[t] # Fail
  /\ totalSupply # Fail /\ gaugeBalance # Fail

\* C24: the threshold floor(old * num / den) has no failure mode: for every
\* old value of the unsigned type, a call on an Armed trigger whose reads
\* were all answered is not aborted, it returns true or false
C24_ThresholdNeverAborts ==
  (CalledArmed /\ AllReadsAnswered) => ret \in {"true", "false"}

\* C25: YearnCrvTricrypto compares the Curve virtual price under 490/1000:
\* with the price per share passing, a virtual price of
\* floor(lastVirtualPrice * 490 / 1000) does not latch the trigger and one of
\* floor(lastVirtualPrice * 489 / 1000) does
C25_VirtualPriceTolIs490 ==
  (CalledArmed /\ contract = "YearnCrvTricrypto" /\ AllReadsAnswered
     /\ CaughtOutcome(contract, "pps") = "ok")
    => /\ (Fresh("vp") = (pre.vp * 490) \div 1000) => (ret = "false" /\ ~isTriggered)
       /\ (Fresh("vp") = (pre.vp * 489) \div 1000) => (ret = "true" /\ isTriggered)

\* C26: with both virtual prices passing, the Convex trigger latches exactly
\* when the true balance of a token of its base or meta pool is below
\* floor(tracked balance * 500 / 1000)
C26_ConvexLatchesOnDrainedBalance ==
  (CalledArmed /\ contract = "Convex" /\ AllReadsAnswered
     /\ \A n \in TrackerNames(contract) : CaughtOutcome(contract, n) = "ok")
    => /\ ret \in {"true", "false"}
       /\ (ret = "true") <=> (\E t \in PoolTokens(contract) : BalanceOutcome(t) = "violated")
       /\ isTriggered <=> (ret = "true")

\* C22: right after a successful construction the trigger is Armed, it has
\* emitted nothing, and each tracker's lastValue is the value its source
\* answered during construction
C22_ConstructedArmedWithFreshTrackers ==
  ret = "deployed"
    => /\ ~isTriggered
       /\ events = 0
       /\ \A n \in TrackerNames(contract) : Fresh(n) # Fail /\ Last(n) = Fresh(n)

\* a base+meta trigger constructed on pools with two different virtual prices
C22_Witness ==
  /\ ret = "deployed" /\ contract \in BaseMeta
  /\ lastVpBasePool = virtualPrice["base"] /\ lastVpMetaPool = virtualPrice["meta"]
  /\ lastVpBasePool > lastVpMetaPool /\ lastVpMetaPool > 0

\* C28: in ConvexUSDP, Convex2 and ConvexUSDT, when every check up to and
\* including the base pool virtual price passes and the meta pool virtual
\* price violates or cannot be read, the call returns true, the trigger is
\* latched, lastVpBasePool is the value read in the call and lastVpMetaPool
\* is what it was
C28_BaseCommittedMetaKept ==
  (CalledArmed /\ contract \in BaseMeta
     /\ EarlierPass(contract, "meta")
     /\ (virtualPrice["meta"] = Fail \/ BelowFloor(contract, "meta")))
    => /\ ret = "true" /\ isTriggered
       /\ lastVpBasePool = virtualPrice["base"]
       /\ lastVpMetaPool = pre.meta

\* the base pool virtual price moved and was stored by the call in which the
\* meta pool virtual price fell below its floor
C28_Witness ==
  /\ CalledArmed /\ contract \in BaseMeta /\ EarlierPass(contract, "meta")
  /\ BelowFloor(contract, "meta")
  /\ lastVpBasePool = virtualPrice["base"] /\ lastVpBasePool # pre.base
  /\ lastVpMetaPool = pre.meta /\ lastVpMetaPool # virtualPrice["meta"]
  /\ isTriggered

\* C29: in YearnCrvTricrypto, CurveThreeTokens and Convex every evaluation
\* that completes stores the values it read, violation or not: after the
\* call that latches the trigger the last-value fields hold the values that
\* caused the trigger
C29_UnconditionalAlwaysStores ==
  (CalledArmed /\ contract \in Unconditional /\ ret \in {"true", "false"})
    => /\ \A n \in TrackerNames(contract) : Last(n) = Fresh(n)
       /\ ret = "true" => isTriggered

\* the call that latched CurveThreeTokens stored the virtual price that
\* violated
C29_Witness ==
  /\ CalledArmed /\ contract = "CurveThreeTokens" /\ ret = "true" /\ isTriggered
  /\ BelowFloor(contract, "vp")
  /\ lastVirtualPrice = virtualPrice["curve"] /\ lastVirtualPrice # pre.vp

NestedObservations ==
  {reads[i][3] : i \in {j \in 1..Len(reads) : reads[j][1] = "nested" /\ reads[j][2] = "read"}}

\* C21: calls that overlap behave as if run one after another: whoever reads
\* the trigger while a call is in progress sees the storage as it was before
\* that call or as it is after it, never a state in between
C21_NoIntermediateStateExposed ==
  Called => \A seen \in NestedObservations : seen = pre \/ seen = Storage

\* the part of C21 that holds: a nested checkAndToggleTrigger() aborts and
\* changes nothing, and there is at most one Armed-to-Triggered transition
AtMostOneTransition ==
  /\ events = (IF isTriggered THEN 1 ELSE 0)
  /\ \A i \in 1..Len(reads) :
       (reads[i][1] = "nested" /\ reads[i][2] = "checkAndToggleTrigger") => reads[i][3] = "revert"
  /\ InProgress => ~isTriggered

\* C27: name, symbol, description, platform IDs and recipient are the
\* constructor's arguments, after construction and after any sequence of
\* calls, latching or not
C27_IdentityIsConstructorArgs ==
  /\ identity.name = args.name
  /\ identity.symbol = args.symbol
  /\ identity.description = args.description
  /\ identity.platformIds = args.platformIds
  /\ identity.recipient = args.recipient

\* a trigger latched by a call, its identity the one it was deployed with
C27_Witness ==
  /\ CalledArmed /\ ret = "true" /\ isTriggered
  /\ identity = args /\ identity.name = "Convex Trigger" /\ identity.recipient = "deployer"

\* C23: isTriggered and the last-value fields change only in a step of a
\* checkAndToggleTrigger() call (one that ends the call, or the assignment of
\* lastVpBasePool inside a base+meta call); an accessor changes nothing of
\* the trigger or of its sources
C23_OnlyTheCallWrites ==
  [][/\ (isTriggered' # isTriggered \/ lasts' # lasts)
         => \/ ret' \in {"true", "false"} /\ (pre' = Storage \/ InProgress)
            \/ ret = "reading" /\ ret' = "readingMeta"
     /\ ret' = "view" => UNCHANGED <<fixed, env, isTriggered, lasts, events>>
     /\ (reads' # reads /\ InProgress /\ ret' = ret)
         => UNCHANGED <<fixed, env, isTriggered, lasts, events>>]_vars

\* an accessor was called after a call had moved a last-value field, and the
\* storage is what that call left
C23_Witness ==
  /\ ret = "view" /\ pre = Storage
  /\ contract = "CurveThreeTokenBasePool"
  /\ lastVirtualPrice = 1000000 /\ virtualPrice["curve"] = 500
  /\ ~isTriggered

\* every balance and supply the contract reads is answered
BalanceReadsAnswered(c) ==
  /\ \A t \in TokensOf(c) : balanceOf[t] # Fail
  /\ c \in WithEquality => (totalSupply # Fail /\ gaugeBalance # Fail)

\* C31: in the base+meta triggers a true balance below
\* floor(tracked balance * 500 / 1000) on one token of the base pool or of
\* the meta pool latches the trigger, whatever the balances of the other
\* tokens and whatever the virtual prices answer
C31_SingleDrainLatches ==
  \A t \in TokensOf(contract) :
    (CalledArmed /\ contract \in BaseMeta /\ BalanceReadsAnswered(contract)
       /\ balanceOf[t] < (internalBalance * 500) \div 1000)
      => (ret = "true" /\ isTriggered)

\* the second meta pool token alone was drained, another token sat on its
\* floor, the base pool virtual price could not be read, and the trigger
\* latched
C31_Witness ==
  /\ CalledArmed /\ contract = "ConvexUSDP" /\ ret = "true" /\ isTriggered
  /\ balanceOf[<<"meta", 1>>] = 499999
  /\ \A t \in TokensOf(contract) \ {<<"meta", 1>>} : balanceOf[t] >= 500000
  /\ balanceOf[<<"base", 0>>] = 500000
  /\ virtualPrice["base"] = Fail /\ virtualPrice["meta"] = 499

\* a balance check or the equality check of the contract finds a violation
\* in the values the sources answer now
ViolatedNow(c) ==
  \/ \E t \in TokensOf(c) : balanceOf[t] < (internalBalance * 500) \div 1000
  \/ c \in WithEquality /\ totalSupply # gaugeBalance

\* C32: the balance checks and the equality check keep no history. Whatever
\* the earlier calls saw, a call on an Armed trigger returns true when one of
\* them is violated by the values read in that call, and when none is and
\* every tracker passes it returns false; a short-circuit trigger that
\* returns on one of them leaves every stored value as it was
C32_ChecksKeepNoHistory ==
  (CalledArmed /\ contract \in ShortCircuit \cup {"CurveThreeTokens"}
     /\ BalanceReadsAnswered(contract)
     /\ (contract = "CurveThreeTokens" => Fresh("vp") # Fail))
    => /\ ViolatedNow(contract) => (ret = "true" /\ isTriggered)
       /\ (ViolatedNow(contract) /\ contract \in ShortCircuit)
            => \A n \in TrackerNames(contract) : Last(n) = pre[n]
       /\ (~ViolatedNow(contract)
             /\ \A n \in TrackerNames(contract) : CaughtOutcome(contract, n) = "ok")
            => (ret = "false" /\ ~isTriggered)

\* the pool's virtual price had moved when a drained token made the call
\* return true, and the remembered virtual price stayed
C32_Witness ==
  /\ CalledArmed /\ contract = "CurveThreeTokenBasePool" /\ ret = "true"
  /\ balanceOf[<<"curve", 1>>] = 499999
  /\ virtualPrice["curve"] = 1000000 /\ pre.vp = 1000 /\ lastVirtualPrice = 1000

\* C33: while each fall of a signal between two calls stays at or above the
\* floor of the value stored by the call before it, no call latches the
\* trigger: every call returns false and stores the values it read, however
\* far below the values read at construction they are
C33_SlowDeclineNeverLatches ==
  /\ ~isTriggered
  /\ events = 0
  /\ Called => (ret = "false" /\ \A n \in TrackerNames(contract) : Last(n) = Fresh(n))

\* a virtual price read as 1000 at construction has reached 0 and the call
\* that read 0 returned false
C33_Witness ==
  /\ CalledArmed /\ contract = "CurveThreeTokenBasePool" /\ ret = "false" /\ ~isTriggered
  /\ pre.vp = 1 /\ virtualPrice["curve"] = 0 /\ lastVirtualPrice = 0

\* C34: a call made right after a call that left the trigger Armed, with no
\* source changed in between, leaves the trigger Armed, emits nothing and
\* leaves every lastValue as the earlier call left it
C34_RepeatedCallChangesNothing ==
  [][(Called /\ ~isTriggered /\ ret' \in {"true", "false", "revert"})
       => (~isTriggered' /\ lasts' = lasts /\ events' = events)]_vars

\* a call that started from the storage an earlier call had left, read the
\* same values and returned false
C34_Witness ==
  /\ CalledArmed /\ ret = "false" /\ ~isTriggered
  /\ contract \in BaseMeta
  /\ pre = Storage
  /\ lastVpBasePool = virtualPrice["base"] /\ lastVpMetaPool = virtualPrice["meta"]
  /\ lastVpBasePool > lastVpMetaPool

\* C35: a violation is detected only by a call made while it lasts. A call
\* made after a signal dropped below its threshold and came back to the
\* threshold or above returns false and leaves the trigger Armed; a call made
\* while the signal is below the threshold latches it
C35_DipBetweenCallsGoesUnseen ==
  [][/\ (ret = "recovered" /\ ret' \in {"true", "false", "revert"})
         => (ret' = "false" /\ ~isTriggered' /\ events' = events)
     /\ (ret = "dipped" /\ ret' \in {"true", "false", "revert"})
         => (ret' = "true" /\ isTriggered')]_vars

\* the base pool virtual price had dropped below the floor and come back
\* exactly onto it when the call was made, and the call returned false
C35_Witness ==
  /\ CalledArmed /\ contract = "Convex" /\ ret = "false" /\ ~isTriggered
  /\ pre.base = 1000 /\ virtualPrice["base"] = 500 /\ lastVpBasePool = 500

====
